---- MODULE Spec2Model ----
(***************************************************************************)
(* Model of example-runtime/src/main.rs of wasi-gfx-runtime: the seven     *)
(* async_broadcast event channels, the UI event loop with its frame-tick   *)
(* task, the CreateWindow request/reply path and the guest task that owns  *)
(* the store (resource table and the InactiveReceiver endpoints).          *)
(***************************************************************************)
EXTENDS Integers, Sequences, FiniteSets, TLC

\* ---------------------------------------------------------------- bounds
MaxEvents == 2    \* publish attempts in a general run
MaxPub == 3       \* publish attempts in a fan-out run
FloodExtra == 1   \* publish attempts beyond capacity in a flood run
MaxSubs == 2      \* subscription slots (listeners alive at the same time)
MaxReq == 2       \* create_window requesters (one window each)
MaxHandles == 1   \* entries of the resource table

\* ------------------------------------------------------ program constants
EventCapacity == 10   \* async_broadcast::broadcast(10)
FrameCapacity == 1    \* async_broadcast::broadcast(1)

Chan == {"pointer_up_event", "pointer_down_event", "pointer_move_event",
         "key_up_event", "key_down_event", "canvas_resize_event", "frame"}

\* Every channel created like the frame channel.
capacity_all_frame(c) == FrameCapacity

capacity(c) == IF c = "frame" THEN FrameCapacity ELSE EventCapacity

SubIds == 1..MaxSubs
ReqIds == 1..MaxReq

VARIABLES
    \* --- main / tasks
    guest,          \* "not_spawned" | "running" | "exited"  (task of main.rs:438)
    ui,             \* "not_started" | "running" | "panicked" (event_loop.run)
    ticker,         \* "not_started" | "running" | "panicked" (task of main.rs:207)
    \* --- broadcast channels (one entry per field of MainThreadMessageSenders)
    queue,          \* [Chan -> Seq([id, waiters, ev])]
    receiver_count, \* [Chan -> Nat] active receivers
    inactive_receiver_count, \* [Chan -> Nat] InactiveReceiver endpoints
    is_closed,      \* [Chan -> BOOLEAN]
    subs,           \* [SubIds -> subscription record]
    \* --- UI loop
    pointer_pos,    \* HashMap<WindowId,(f64,f64)> as a function on its keys
    windows,        \* live native windows
    nextWin,        \* number of windows created so far
    userEvents,     \* queue of the EventLoopProxy: Seq(ReqIds)
    req,            \* [ReqIds -> requester record]
    \* --- resource table of the store
    table,          \* handle -> [kind, ty]: the entry's host type and the kind it was pushed as
    dropped,        \* handle -> how often the value last pushed at it has been dropped
    \* --- history
    npub,           \* [Chan -> Nat] publish attempts so far (message ids)
    step,           \* what the step that led to this state did
    moved,          \* windows for which a CursorMoved has been handled
    \* --- run parameters fixed by Init
    quota,          \* publish attempts still allowed in this run
    hot,            \* channels this run publishes and subscribes to
    callers,        \* requesters that call create_window in this run
    slots,          \* subscription slots in use in this run
    inputs          \* alphabets the native inputs are drawn from

chanVars == <<queue, receiver_count, inactive_receiver_count, is_closed, subs, npub>>
uiVars == <<pointer_pos, windows, nextWin, userEvents, req, moved, table, dropped>>
vars == <<guest, ui, ticker, table, dropped, queue, receiver_count, inactive_receiver_count,
          is_closed, subs, pointer_pos, windows, nextWin, userEvents, req,
          npub, step, moved, quota, hot, callers, slots, inputs>>

\* ------------------------------------------------------------ native inputs
\* Cursor positions, keyboard inputs (virtual key code, scan code, modifier
\* state) and window sizes the windowing system may report.
Positions == {<<12, 7>>, <<3, 4>>}
KeyInputs ==
    {[virtual_keycode |-> "A", scancode |-> 30,
      alt |-> TRUE, ctrl |-> FALSE, logo |-> FALSE, shift |-> FALSE],
     [virtual_keycode |-> "None", scancode |-> 42,
      alt |-> FALSE, ctrl |-> TRUE, logo |-> TRUE, shift |-> TRUE]}
Sizes == {<<800, 600>>, <<640, 480>>}
ElementState == {"Pressed", "Released"}

RichInputs == [pos |-> Positions, keys |-> KeyInputs, sizes |-> Sizes]
PlainInputs ==
    [pos |-> {<<12, 7>>},
     keys |-> {[virtual_keycode |-> "A", scancode |-> 30,
                alt |-> TRUE, ctrl |-> FALSE, logo |-> FALSE, shift |-> FALSE]},
     sizes |-> {<<800, 600>>}]

\* ------------------------------------------------------------------ records
NoSub == [state |-> "free", chan |-> "none", idx |-> 0, subAt |-> 0,
          seen |-> <<>>, solo |-> FALSE]
NoReq == [state |-> "idle", slot |-> 0, win |-> 0]
NoTurn == [kind |-> "none", chan |-> "none", id |-> 0, qlen |-> 0, rc |-> 0,
           result |-> "none", ev |-> <<>>, printed |-> FALSE, input |-> <<>>,
           lookup |-> "none", reply |-> "none", req |-> 0, win |-> 0,
           handle |-> 0, want |-> "none"]

\* The process is gone once the main thread (the UI event loop) has panicked.
ProcessAlive == ui # "panicked"

\* ------------------------------------------------------------------- Init
\* State after create_event_loop(), HostState::new and instantiate_async:
\* every channel has its Sender and one InactiveReceiver (the Receiver made
\* by broadcast() was deactivated), nothing is queued.
InitCommon ==
    /\ guest = "not_spawned"
    /\ ui = "not_started"
    /\ ticker = "not_started"
    /\ queue = [c \in Chan |-> <<>>]
    /\ receiver_count = [c \in Chan |-> 0]
    /\ inactive_receiver_count = [c \in Chan |-> 1]
    /\ is_closed = [c \in Chan |-> FALSE]
    /\ subs = [s \in SubIds |-> NoSub]
    /\ pointer_pos = <<>>
    /\ windows = {}
    /\ nextWin = 0
    /\ userEvents = <<>>
    /\ req = [r \in ReqIds |-> NoReq]
    /\ npub = [c \in Chan |-> 0]
    /\ step = NoTurn
    /\ moved = {}
    /\ table = <<>>
    /\ dropped = [h \in 1..MaxHandles |-> 0]

\* The channels grouped by the native event that feeds them.
ChannelGroups ==
    {{"pointer_move_event", "pointer_down_event", "pointer_up_event"},
     {"key_down_event", "key_up_event"},
     {"canvas_resize_event"},
     {"frame"}}

\* General run: several create_window callers, every value of the native
\* inputs, a few publishes on the channels of one kind of native event.
Init ==
    /\ InitCommon
    /\ quota = MaxEvents
    /\ hot \in ChannelGroups
    /\ callers = ReqIds
    /\ slots = {1}
    /\ inputs = RichInputs

\* Window run: as the general run, with a single publish and a single value
\* of each native input next to the create_window callers.
InitLive ==
    /\ InitCommon
    /\ quota = 1
    /\ hot \in ChannelGroups
    /\ callers = ReqIds
    /\ slots = {1}
    /\ inputs = PlainInputs

\* Bus run: one channel at a time, either flooded past its capacity with a
\* single listener or fanned out to several listeners for a few publishes.
InitBus ==
    /\ InitCommon
    /\ \E c \in Chan, n \in 1..MaxSubs :
          /\ hot = {c}
          /\ slots = 1..n
          /\ quota = IF n = 1 THEN capacity(c) + FloodExtra ELSE MaxPub
    /\ callers = {1}
    /\ inputs = PlainInputs

\* Table run: only the guest's host calls on the resource table.
InitTable ==
    /\ InitCommon
    /\ quota = 0
    /\ hot = {}
    /\ callers = {}
    /\ slots = {}
    /\ inputs = PlainInputs

\* ------------------------------------------------------ async_broadcast
\* Sender::try_broadcast on a channel without overflow mode: the outcome.
try_broadcast(c) ==
    IF is_closed[c] THEN "Closed"
    ELSE IF receiver_count[c] = 0 THEN "Inactive"
    ELSE IF Len(queue[c]) = capacity(c) THEN "Full"
    ELSE "Ok"

\* The event broadcast twice.
EnqueuedTwice(c, ev) ==
    IF try_broadcast(c) = "Ok"
    THEN queue[c] \o << [id |-> npub[c] + 1, waiters |-> receiver_count[c], ev |-> ev],
                        [id |-> npub[c] + 1, waiters |-> receiver_count[c], ev |-> ev] >>
    ELSE queue[c]

\* The event buffered for one receiver only.
EnqueuedForOne(c, ev) ==
    IF try_broadcast(c) = "Ok"
    THEN Append(queue[c], [id |-> npub[c] + 1, waiters |-> 1, ev |-> ev])
    ELSE queue[c]

\* The channel queue after try_broadcast(c) of event ev: pushed at the back
\* with one waiter per active receiver when the outcome is Ok, untouched
\* otherwise.
Enqueued(c, ev) ==
    IF try_broadcast(c) = "Ok"
    THEN Append(queue[c], [id |-> npub[c] + 1, waiters |-> receiver_count[c], ev |-> ev])
    ELSE queue[c]

\* What a producer turn records about its publish.
Turn(kind, c, ev, w) ==
    [NoTurn EXCEPT !.kind = kind, !.chan = c, !.id = npub[c] + 1,
                   !.qlen = Len(queue[c]), !.rc = receiver_count[c],
                   !.result = try_broadcast(c), !.ev = ev, !.win = w]

\* The state change of one try_broadcast call on channel c.
Broadcast(c, ev) ==
    /\ c \in hot
    /\ quota > 0
    /\ quota' = quota - 1
    /\ queue' = [queue EXCEPT ![c] = Enqueued(c, ev)]
    /\ npub' = [npub EXCEPT ![c] = @ + 1]
    /\ UNCHANGED <<receiver_count, inactive_receiver_count, is_closed, subs>>

\* A plain unwrap of the result.
unwrap_result(res) == IF res = "Ok" THEN "running" ELSE "panicked"

\* unwrap_unless_inactive(res): returns on Ok and on Err(Inactive), panics on
\* every other Err.
unwrap_unless_inactive(res) == IF res \in {"Ok", "Inactive"} THEN "running" ELSE "panicked"

\* The match with Full treated like Closed.
match_panics_on_full(res) == IF res \in {"Closed", "Full"} THEN "panicked" ELSE "running"

\* The match of the frame loop and of the CursorMoved handler: Full is
\* printed, Inactive ignored, Closed panics.
match_try_send_error(res) == IF res = "Closed" THEN "panicked" ELSE "running"

\* ---------------------------------------------------------------- main
\* main.rs:438 tokio::spawn of the task that calls instance.call_start.
SpawnGuest ==
    /\ guest = "not_spawned"
    /\ guest' = "running"
    /\ step' = [NoTurn EXCEPT !.kind = "SpawnGuest"]
    /\ UNCHANGED <<ui, ticker, chanVars, uiVars, quota, hot, callers, slots, inputs>>

\* event_loop.run() called ahead of the tokio::spawn of the guest task.
EventLoopRunFirst ==
    /\ ui = "not_started"
    /\ ui' = "running"
    /\ ticker' = "running"
    /\ step' = [NoTurn EXCEPT !.kind = "EventLoopRun"]
    /\ UNCHANGED <<guest, chanVars, uiVars, quota, hot, callers, slots, inputs>>

\* An event loop that forgets the user events posted before it ran.
EventLoopRunDropsPosted ==
    /\ guest # "not_spawned"
    /\ ui = "not_started"
    /\ ui' = "running"
    /\ ticker' = "running"
    /\ userEvents' = <<>>
    /\ step' = [NoTurn EXCEPT !.kind = "EventLoopRun"]
    /\ UNCHANGED <<guest, chanVars, pointer_pos, windows, nextWin, req, moved, table,
                   dropped, quota, hot, callers, slots, inputs>>

\* main.rs:442 event_loop.run(): spawns the frame-tick task and enters the
\* native event loop.
EventLoopRun ==
    /\ guest # "not_spawned"
    /\ ui = "not_started"
    /\ ui' = "running"
    /\ ticker' = "running"
    /\ step' = [NoTurn EXCEPT !.kind = "EventLoopRun"]
    /\ UNCHANGED <<guest, chanVars, uiVars, quota, hot, callers, slots, inputs>>

\* One iteration of the frame-tick loop.
Tick ==
    /\ ProcessAlive
    /\ ticker = "running"
    /\ Broadcast("frame", "tick")
    /\ step' = [Turn("Tick", "frame", "tick", 0)
                        EXCEPT !.printed = (try_broadcast("frame") = "Full")]
    /\ ticker' = match_try_send_error(try_broadcast("frame"))
    /\ UNCHANGED <<guest, ui, uiVars, hot, callers, slots, inputs>>

\* ------------------------------------------------------------- UI loop
\* A lookup that ignores which window the key names.
HashMapGetAnyWindow(m, k) ==
    IF k \in DOMAIN m THEN <<m[CHOOSE x \in DOMAIN m : \A y \in DOMAIN m : x <= y]>> ELSE <<>>

\* An insert that forgets every other key.
HashMapInsertAlone(m, k, v) == [x \in {k} |-> v]

\* HashMap::get and HashMap::insert; an Option is <<>> (None) or <<v>> (Some).
HashMapGet(m, k) == IF k \in DOMAIN m THEN <<m[k]>> ELSE <<>>
HashMapInsert(m, k, v) == [x \in DOMAIN m \cup {k} |-> IF x = k THEN v ELSE m[x]]

\* format!("{k:?}") of Option<VirtualKeyCode>::map, unwrap_or_default.
KeyCodeString(vk) == IF vk = "None" THEN "" ELSE vk

\* The KeyEvent built from a native KeyboardInput.
MakeKeyEvent(w, input) ==
    [win |-> w,
     code |-> KeyCodeString(input.virtual_keycode),
     key |-> ToString(input.scancode),
     alt_key |-> input.shift,
     ctrl_key |-> input.ctrl,
     meta_key |-> input.logo,
     shift_key |-> input.shift]

\* The two arms of the MouseInput match exchanged.
PointerChannelSwapped(state) ==
    IF state = "Pressed" THEN "pointer_up_event" ELSE "pointer_down_event"

PointerChannel(state) ==
    IF state = "Pressed" THEN "pointer_down_event" ELSE "pointer_up_event"
KeyChannel(state) ==
    IF state = "Pressed" THEN "key_down_event" ELSE "key_up_event"

\* The CreateWindow handler sending the window to whichever requester waits.
HandleCreateWindowAnyWaiter ==
    /\ ui = "running"
    /\ userEvents # <<>>
    /\ LET r == Head(userEvents)
           w == nextWin + 1
           waiting == {o \in ReqIds : req[o].state = "waiting" /\ req[o].slot = 0}
           alive == waiting # {}
           to == CHOOSE o \in waiting : \A x \in waiting : x <= o
       IN /\ userEvents' = Tail(userEvents)
          /\ nextWin' = w
          /\ pointer_pos' = HashMapInsert(pointer_pos, w, <<0, 0>>)
          /\ req' = IF alive THEN [req EXCEPT ![to].slot = w] ELSE req
          /\ windows' = IF alive THEN windows \cup {w} ELSE windows
          /\ ui' = IF alive THEN "running" ELSE "panicked"
          /\ step' = [NoTurn EXCEPT !.kind = "CreateWindow", !.req = r, !.win = w,
                           !.reply = IF alive THEN "sent" ELSE "receiver_dropped"]
    /\ UNCHANGED <<guest, ticker, chanVars, moved, table, dropped, quota, hot, callers, slots, inputs>>

\* The CreateWindow handler without the pointer_pos.insert.
HandleCreateWindowUntracked ==
    /\ ui = "running"
    /\ userEvents # <<>>
    /\ LET r == Head(userEvents)
           w == nextWin + 1
           alive == req[r].state = "waiting"
       IN /\ userEvents' = Tail(userEvents)
          /\ nextWin' = w
          /\ pointer_pos' = pointer_pos
          /\ req' = IF alive THEN [req EXCEPT ![r].slot = w] ELSE req
          /\ windows' = IF alive THEN windows \cup {w} ELSE windows
          /\ ui' = IF alive THEN "running" ELSE "panicked"
          /\ step' = [NoTurn EXCEPT !.kind = "CreateWindow", !.req = r, !.win = w,
                         !.reply = IF alive THEN "sent" ELSE "receiver_dropped"]
    /\ UNCHANGED <<guest, ticker, chanVars, moved, table, dropped, quota, hot, callers, slots, inputs>>

\* Event::UserEvent(MainThreadAction::CreateWindow(response_channel)).
\* oneshot::Sender::send fails when the receiver is gone and the unwrap on its
\* result then panics; the window travels back inside the error and is dropped.
HandleCreateWindow ==
    /\ ui = "running"
    /\ userEvents # <<>>
    /\ LET r == Head(userEvents)
           w == nextWin + 1
           alive == req[r].state = "waiting"
       IN /\ userEvents' = Tail(userEvents)
          /\ nextWin' = w
          /\ pointer_pos' = HashMapInsert(pointer_pos, w, <<0, 0>>)
          /\ req' = IF alive THEN [req EXCEPT ![r].slot = w] ELSE req
          /\ windows' = IF alive THEN windows \cup {w} ELSE windows
          /\ ui' = IF alive THEN "running" ELSE "panicked"
          /\ step' = [NoTurn EXCEPT !.kind = "CreateWindow", !.req = r, !.win = w,
                           !.reply = IF alive THEN "sent" ELSE "receiver_dropped"]
    /\ UNCHANGED <<guest, ticker, chanVars, moved, table, dropped, quota, hot, callers, slots, inputs>>

\* WindowEvent::CursorMoved { position, .. }
HandleCursorMoved(w, p) ==
    /\ ui = "running"
    /\ w \in windows
    /\ p \in inputs.pos
    /\ LET c == "pointer_move_event"
           ev == [win |-> w, x |-> p[1], y |-> p[2]]
           prev == HashMapGet(pointer_pos, w)
       IN /\ pointer_pos' = HashMapInsert(pointer_pos, w, p)
          /\ IF prev = <<>>
             THEN /\ ui' = "panicked"
                  /\ step' = [NoTurn EXCEPT !.kind = "CursorMoved", !.win = w,
                                              !.lookup = "missing", !.input = p]
                  /\ UNCHANGED <<chanVars, quota, moved>>
             ELSE /\ Broadcast(c, ev)
                  /\ moved' = moved \cup {w}
                  /\ ui' = match_try_send_error(try_broadcast(c))
                  /\ step' = [Turn("CursorMoved", c, ev, w) EXCEPT
                                   !.lookup = "found", !.input = p,
                                   !.printed = (try_broadcast(c) = "Full")]
    /\ UNCHANGED <<guest, ticker, windows, nextWin, userEvents, req, table, dropped, hot, callers, slots, inputs>>

\* WindowEvent::KeyboardInput { input, .. }
HandleKeyboardInput(w, input, state) ==
    /\ ui = "running"
    /\ w \in windows
    /\ input \in inputs.keys
    /\ state \in ElementState
    /\ LET c == KeyChannel(state)
           ev == MakeKeyEvent(w, input)
       IN /\ Broadcast(c, ev)
          /\ ui' = unwrap_unless_inactive(try_broadcast(c))
          /\ step' = [Turn("KeyboardInput", c, ev, w) EXCEPT
                           !.input = [input |-> input, state |-> state]]
    /\ UNCHANGED <<guest, ticker, uiVars, hot, callers, slots, inputs>>

\* WindowEvent::MouseInput { state, .. }
HandleMouseInput(w, state) ==
    /\ ui = "running"
    /\ w \in windows
    /\ state \in ElementState
    /\ LET c == PointerChannel(state)
           got == HashMapGet(pointer_pos, w)
       IN IF got = <<>>
          THEN /\ ui' = "panicked"
               /\ step' = [NoTurn EXCEPT !.kind = "MouseInput", !.win = w,
                                           !.lookup = "missing", !.input = state]
               /\ UNCHANGED <<chanVars, quota>>
          ELSE LET ev == [win |-> w, x |-> got[1][1], y |-> got[1][2]]
               IN /\ Broadcast(c, ev)
                  /\ ui' = unwrap_unless_inactive(try_broadcast(c))
                  /\ step' = [Turn("MouseInput", c, ev, w) EXCEPT
                                   !.lookup = "found", !.input = state]
    /\ UNCHANGED <<guest, ticker, uiVars, hot, callers, slots, inputs>>

\* WindowEvent::Resized(new_size); a size is <<width, height>>.
HandleResized(w, size) ==
    /\ ui = "running"
    /\ w \in windows
    /\ size \in inputs.sizes
    /\ LET c == "canvas_resize_event"
           ev == [win |-> w, height |-> size[2], width |-> size[1]]
       IN /\ Broadcast(c, ev)
          /\ ui' = unwrap_unless_inactive(try_broadcast(c))
          /\ step' = [Turn("Resized", c, ev, w) EXCEPT !.input = size]
    /\ UNCHANGED <<guest, ticker, uiVars, hot, callers, slots, inputs>>

\* Every other native event: the `_ => {}` arms.
HandleOther ==
    /\ ui = "running"
    /\ step' = [NoTurn EXCEPT !.kind = "Other"]
    /\ UNCHANGED <<guest, ui, ticker, chanVars, uiVars, quota, hot, callers, slots, inputs>>

\* ---------------------------------------------------- guest: create_window
\* MyMessageSender::create_window up to its await: a fresh oneshot channel,
\* the sender posted to the event loop through the proxy.
PostCreateWindow(r) ==
    /\ ProcessAlive
    /\ guest = "running"
    /\ r \in callers
    /\ req[r].state = "idle"
    /\ \A o \in 1..(r - 1) : req[o].state # "idle"
    /\ req' = [req EXCEPT ![r].state = "waiting"]
    /\ userEvents' = Append(userEvents, r)
    /\ step' = [NoTurn EXCEPT !.kind = "PostCreateWindow", !.req = r]
    /\ UNCHANGED <<guest, ui, ticker, chanVars, table, dropped, pointer_pos, windows, nextWin,
                   moved, quota, hot, callers, slots, inputs>>

\* send_event returning Ok although the event loop is gone.
PostCreateWindowIgnoresClosed(r) ==
    /\ ui = "panicked"
    /\ guest = "running"
    /\ r \in callers
    /\ req[r].state = "idle"
    /\ \A o \in 1..(r - 1) : req[o].state # "idle"
    /\ req' = [req EXCEPT ![r].state = "waiting"]
    /\ step' = [NoTurn EXCEPT !.kind = "PostCreateWindowLoopClosed", !.req = r]
    /\ UNCHANGED <<guest, ui, ticker, chanVars, table, dropped, pointer_pos, windows,
                   nextWin, userEvents, moved, quota, hot, callers, slots, inputs>>

\* create_window called while the main thread unwinds from a panic of the UI
\* loop: the event loop is dropped, send_event returns Err(EventLoopClosed)
\* and the unwrap on it panics the guest task, which drops the store, its
\* pending create_window calls included.
PostCreateWindowLoopClosed(r) ==
    /\ ui = "panicked"
    /\ guest = "running"
    /\ r \in callers
    /\ req[r].state = "idle"
    /\ \A o \in 1..(r - 1) : req[o].state # "idle"
    /\ req' = [x \in ReqIds |->
                 IF x = r THEN [req[x] EXCEPT !.state = "failed"]
                 ELSE IF req[x].state = "waiting" THEN [req[x] EXCEPT !.state = "cancelled"]
                 ELSE req[x]]
    /\ guest' = "exited"
    /\ subs' = [s \in SubIds |-> NoSub]
    /\ queue' = [c \in Chan |-> <<>>]
    /\ receiver_count' = [c \in Chan |-> 0]
    /\ inactive_receiver_count' = [c \in Chan |-> 0]
    /\ is_closed' = [c \in Chan |-> TRUE]
    /\ windows' = {}
    /\ table' = <<>>
    /\ dropped' = [h \in 1..MaxHandles |->
                      IF h \in DOMAIN table THEN dropped[h] + 1 ELSE dropped[h]]
    /\ step' = [NoTurn EXCEPT !.kind = "PostCreateWindowLoopClosed", !.req = r]
    /\ UNCHANGED <<ui, ticker, npub, pointer_pos, nextWin, userEvents, moved,
                   quota, hot, callers, slots, inputs>>

\* receiver.await completes with the window the UI loop sent.
ResumeCreateWindow(r) ==
    /\ ProcessAlive
    /\ guest = "running"
    /\ req[r].state = "waiting"
    /\ req[r].slot # 0
    /\ req' = [req EXCEPT ![r].state = "resumed", ![r].win = req[r].slot]
    /\ step' = [NoTurn EXCEPT !.kind = "ResumeCreateWindow", !.req = r, !.win = req[r].slot]
    /\ UNCHANGED <<guest, ui, ticker, chanVars, table, dropped, pointer_pos, windows, nextWin,
                   userEvents, moved, quota, hot, callers, slots, inputs>>

\* The create_window future is dropped at its await: the oneshot receiver is
\* dropped, and with it a window already sitting in the slot.
CancelCreateWindow(r) ==
    /\ ProcessAlive
    /\ guest = "running"
    /\ req[r].state = "waiting"
    /\ req' = [req EXCEPT ![r].state = "cancelled"]
    /\ windows' = windows \ {req[r].slot}
    /\ step' = [NoTurn EXCEPT !.kind = "CancelCreateWindow", !.req = r]
    /\ UNCHANGED <<guest, ui, ticker, chanVars, table, dropped, pointer_pos, nextWin,
                   userEvents, moved, quota, hot, callers, slots, inputs>>

\* ------------------------------------------------------ guest: listeners
\* Receiver::drop / try_recv_at bookkeeping: the queue after the receiver
\* that has consumed the first idx entries gives up the rest. Entries nobody
\* waits for any more leave the queue.
Released(q, idx) ==
    SelectSeq([i \in 1..Len(q) |->
                   IF i > idx THEN [q[i] EXCEPT !.waiters = @ - 1] ELSE q[i]],
              LAMBDA e : e.waiters > 0)

\* InactiveReceiver::activate_cloned through a listener of the guest: a new
\* active receiver positioned at the end of the queue.
Subscribe(s, c) ==
    /\ ProcessAlive
    /\ guest = "running"
    /\ s \in slots
    /\ c \in hot
    /\ subs[s].state = "free"
    /\ \A o \in 1..(s - 1) : subs[o].state # "free"
    /\ inactive_receiver_count[c] > 0
    /\ receiver_count' = [receiver_count EXCEPT ![c] = @ + 1]
    /\ subs' = [t \in SubIds |->
                  IF t = s
                  THEN [state |-> "live", chan |-> c, idx |-> Len(queue[c]),
                        subAt |-> npub[c], seen |-> <<>>,
                        solo |-> (receiver_count[c] = 0)]
                  ELSE IF subs[t].chan = c THEN [subs[t] EXCEPT !.solo = FALSE]
                  ELSE subs[t]]
    /\ step' = [NoTurn EXCEPT !.kind = "Subscribe", !.chan = c]
    /\ UNCHANGED <<guest, ui, ticker, queue, inactive_receiver_count, is_closed,
                   npub, uiVars, quota, hot, callers, slots, inputs>>

\* Receiver::recv with a message available (try_recv_at): the receiver takes
\* the entry at its position; the last waiter pops it from the queue.
Recv(s) ==
    /\ ProcessAlive
    /\ guest = "running"
    /\ subs[s].state = "live"
    /\ subs[s].idx < Len(queue[subs[s].chan])
    /\ LET c == subs[s].chan
           i == subs[s].idx + 1
           last == queue[c][i].waiters = 1
       IN /\ queue' = [queue EXCEPT ![c] =
                          IF last THEN SubSeq(@, 1, i - 1) \o SubSeq(@, i + 1, Len(@))
                          ELSE [@ EXCEPT ![i].waiters = @ - 1]]
          /\ subs' = [t \in SubIds |->
                        IF t = s
                        THEN [subs[s] EXCEPT !.seen = Append(@, queue[c][i].id),
                                             !.idx = IF last THEN @ ELSE @ + 1]
                        ELSE IF subs[t].chan = c /\ last /\ subs[t].idx >= i
                        THEN [subs[t] EXCEPT !.idx = @ - 1]
                        ELSE subs[t]]
    /\ step' = [NoTurn EXCEPT !.kind = "Recv", !.chan = subs[s].chan]
    /\ UNCHANGED <<guest, ui, ticker, receiver_count, inactive_receiver_count,
                   is_closed, npub, uiVars, quota, hot, callers, slots, inputs>>

\* The guest drops a listener: Receiver::drop.
DropListener(s) ==
    /\ ProcessAlive
    /\ guest = "running"
    /\ subs[s].state = "live"
    /\ LET c == subs[s].chan
           q == Released(queue[c], subs[s].idx)
           gone == Len(queue[c]) - Len(q)
       IN /\ queue' = [queue EXCEPT ![c] = q]
          /\ receiver_count' = [receiver_count EXCEPT ![c] = @ - 1]
          /\ is_closed' = [is_closed EXCEPT ![c] =
                              @ \/ (receiver_count[c] = 1 /\ inactive_receiver_count[c] = 0)]
          /\ subs' = [t \in SubIds |->
                        IF t = s THEN NoSub
                        ELSE IF subs[t].chan = c
                        THEN [subs[t] EXCEPT !.idx = @ - gone]
                        ELSE subs[t]]
    /\ step' = [NoTurn EXCEPT !.kind = "DropListener", !.chan = subs[s].chan,
                              !.rc = receiver_count[subs[s].chan],
                              !.qlen = Len(queue[subs[s].chan]) - subs[s].idx]
    /\ UNCHANGED <<guest, ui, ticker, inactive_receiver_count, npub, uiVars,
                   quota, hot, callers, slots, inputs>>

\* The task ends with the store leaked (as with mem::forget): nothing the
\* store owns is dropped.
GuestExitLeaksStore ==
    /\ ProcessAlive
    /\ guest = "running"
    /\ \A r \in ReqIds : req[r].state # "waiting"
    /\ guest' = "exited"
    /\ step' = [NoTurn EXCEPT !.kind = "GuestExit"]
    /\ UNCHANGED <<ui, ticker, chanVars, uiVars, quota, hot, callers, slots, inputs>>

\* The spawned task ends (call_start returned, or its unwrap panicked): the
\* store it owns is dropped, and with it the resource table (listeners,
\* windows) and the MyMessageSender holding the InactiveReceivers. With no
\* receiver of either kind left every channel closes.
GuestExit ==
    /\ ProcessAlive
    /\ guest = "running"
    /\ \A r \in ReqIds : req[r].state # "waiting"
    /\ guest' = "exited"
    /\ subs' = [s \in SubIds |-> NoSub]
    /\ queue' = [c \in Chan |-> <<>>]
    /\ receiver_count' = [c \in Chan |-> 0]
    /\ inactive_receiver_count' = [c \in Chan |-> 0]
    /\ is_closed' = [c \in Chan |-> TRUE]
    /\ windows' = {}
    /\ table' = <<>>
    /\ dropped' = [h \in 1..MaxHandles |->
                      IF h \in DOMAIN table THEN dropped[h] + 1 ELSE dropped[h]]
    /\ step' = [NoTurn EXCEPT !.kind = "GuestExit"]
    /\ UNCHANGED <<ui, ticker, npub, pointer_pos, nextWin, userEvents, req, moved,
                   quota, hot, callers, slots, inputs>>

\* ------------------------------------------------------- resource table
\* The guest-visible resource kinds of the `with:` map of bindgen!.
Kinds ==
    {"gpu-adapter", "gpu-device", "gpu-queue", "gpu-command-encoder",
     "gpu-render-pass-encoder", "gpu-shader-module", "gpu-render-pipeline",
     "gpu-command-buffer", "gpu-buffer", "remote-buffer", "gpu-pipeline-layout",
     "gpu-bind-group-layout", "gpu-sampler", "gpu-supported-features",
     "gpu-texture", "gpu-bind-group", "gpu-texture-view", "surface",
     "frame-buffer", "pointer-up-listener", "pointer-down-listener",
     "pointer-move-listener", "key-up-listener", "key-down-listener",
     "frame-listener", "graphics-context", "graphics-context-buffer",
     "mini-canvas", "resize-listener"}

\* The gpu-buffer line that bindgen! keeps commented out.
HostTypeBufferId(k) ==
    CASE k = "gpu-adapter" -> "wgpu_core::id::AdapterId"
      [] k = "gpu-device" -> "webgpu::Device"
      [] k = "gpu-queue" -> "webgpu::Device"
      [] k = "gpu-buffer" -> "wgpu_core::id::BufferId"
      [] k = "remote-buffer" -> "webgpu::Buffer"
      [] OTHER -> k

\* The host type each resource kind is bound to by the `with:` map.
HostType(k) ==
    CASE k = "gpu-adapter" -> "wgpu_core::id::AdapterId"
      [] k = "gpu-device" -> "webgpu::Device"
      [] k = "gpu-queue" -> "webgpu::Device"
      [] k = "gpu-command-encoder" -> "wgpu_core::id::CommandEncoderId"
      [] k = "gpu-render-pass-encoder" -> "wgpu_core::command::RenderPass"
      [] k = "gpu-shader-module" -> "wgpu_core::id::ShaderModuleId"
      [] k = "gpu-render-pipeline" -> "wgpu_core::id::RenderPipelineId"
      [] k = "gpu-command-buffer" -> "wgpu_core::id::CommandBufferId"
      [] k = "gpu-buffer" -> "webgpu::Buffer"
      [] k = "remote-buffer" -> "webgpu::Buffer"
      [] k = "gpu-pipeline-layout" -> "wgpu_core::id::PipelineLayoutId"
      [] k = "gpu-bind-group-layout" -> "wgpu_core::id::BindGroupLayoutId"
      [] k = "gpu-sampler" -> "wgpu_core::id::SamplerId"
      [] k = "gpu-supported-features" -> "wgpu_types::Features"
      [] k = "gpu-texture" -> "wgpu_core::id::TextureId"
      [] k = "gpu-bind-group" -> "wgpu_core::id::BindGroupId"
      [] k = "gpu-texture-view" -> "wgpu_core::id::TextureViewId"
      [] k = "surface" -> "frame_buffer::SurfaceArc"
      [] k = "frame-buffer" -> "frame_buffer::FrameBuffer"
      [] k = "pointer-up-listener" -> "pointer_events::PointerUpListener"
      [] k = "pointer-down-listener" -> "pointer_events::PointerDownListener"
      [] k = "pointer-move-listener" -> "pointer_events::PointerMoveListener"
      [] k = "key-up-listener" -> "key_events::KeyUpListener"
      [] k = "key-down-listener" -> "key_events::KeyDownListener"
      [] k = "frame-listener" -> "animation_frame::AnimationFrameListener"
      [] k = "graphics-context" -> "graphics_context::GraphicsContext"
      [] k = "graphics-context-buffer" -> "graphics_context::GraphicsContextBuffer"
      [] k = "mini-canvas" -> "mini_canvas::MiniCanvasArc"
      [] k = "resize-listener" -> "mini_canvas::ResizeListener"

\* Looking handle h up in the store's ResourceTable as kind k: the table
\* holds values of host types, so the lookup is decided by the host type
\* that k is bound to.
Resolve(h, k) ==
    IF h \notin DOMAIN table THEN "NotFound"
    ELSE IF table[h].ty # HostType(k) THEN "TypeMismatch"
    ELSE "Ok"

\* A host call pushes a new resource of kind k into the table.
TableAllocate(k) ==
    /\ ProcessAlive
    /\ guest = "running"
    /\ Cardinality(DOMAIN table) < MaxHandles
    /\ LET h == CHOOSE n \in 1..MaxHandles : n \notin DOMAIN table
                   /\ \A o \in 1..(n - 1) : o \in DOMAIN table
       IN /\ table' = [x \in DOMAIN table \cup {h} |->
                         IF x = h THEN [kind |-> k, ty |-> HostType(k)] ELSE table[x]]
          /\ dropped' = [dropped EXCEPT ![h] = 0]
          /\ step' = [NoTurn EXCEPT !.kind = "TableAllocate", !.handle = h, !.want = k]
    /\ UNCHANGED <<guest, ui, ticker, chanVars, pointer_pos, windows, nextWin,
                   userEvents, req, moved, quota, hot, callers, slots, inputs>>

\* A host call resolves handle h as kind k.
TableResolve(h, k) ==
    /\ ProcessAlive
    /\ guest = "running"
    /\ step' = [NoTurn EXCEPT !.kind = "TableResolve", !.handle = h, !.want = k,
                              !.result = Resolve(h, k)]
    /\ UNCHANGED <<guest, ui, ticker, chanVars, uiVars, quota, hot, callers, slots, inputs>>

\* The guest releases handle h: the entry is removed and its value dropped.
TableRelease(h) ==
    /\ ProcessAlive
    /\ guest = "running"
    /\ h \in DOMAIN table
    /\ table' = [x \in DOMAIN table \ {h} |-> table[x]]
    /\ dropped' = [dropped EXCEPT ![h] = @ + 1]
    /\ step' = [NoTurn EXCEPT !.kind = "TableRelease", !.handle = h]
    /\ UNCHANGED <<guest, ui, ticker, chanVars, pointer_pos, windows, nextWin,
                   userEvents, req, moved, quota, hot, callers, slots, inputs>>

\* ------------------------------------------------------------------ Next
Next ==
    \/ SpawnGuest
    \/ EventLoopRun
    \/ Tick
    \/ HandleCreateWindow
    \/ \E w \in 1..MaxReq, p \in Positions : HandleCursorMoved(w, p)
    \/ \E w \in 1..MaxReq, i \in KeyInputs, st \in ElementState : HandleKeyboardInput(w, i, st)
    \/ \E w \in 1..MaxReq, st \in ElementState : HandleMouseInput(w, st)
    \/ \E w \in 1..MaxReq, sz \in Sizes : HandleResized(w, sz)
    \/ HandleOther
    \/ \E r \in ReqIds : PostCreateWindow(r)
    \/ \E r \in ReqIds : ResumeCreateWindow(r)
    \/ \E r \in ReqIds : CancelCreateWindow(r)
    \/ \E s \in SubIds, c \in Chan : Subscribe(s, c)
    \/ \E s \in SubIds : Recv(s)
    \/ \E s \in SubIds : DropListener(s)
    \/ GuestExit

\* The general run also follows the guest while the main thread unwinds.
NextUnwinding ==
    \/ Next
    \/ \E r \in ReqIds : PostCreateWindowLoopClosed(r)

Spec == Init /\ [][NextUnwinding]_vars

\* The window run with the main thread going on to event_loop.run() and the
\* event loop delivering the user events posted to it.
SpecLive ==
    /\ InitLive /\ [][NextUnwinding]_vars
    /\ WF_vars(EventLoopRun)
    /\ WF_vars(HandleCreateWindow)
SpecBus == InitBus /\ [][Next]_vars

\* The guest's host calls on the resource table, up to the end of the guest.
NextTable ==
    \/ SpawnGuest
    \/ \E k \in Kinds : TableAllocate(k)
    \/ \E h \in 1..MaxHandles, k \in Kinds : TableResolve(h, k)
    \/ \E h \in 1..MaxHandles : TableRelease(h)
    \/ GuestExit

SpecTable == InitTable /\ [][NextTable]_vars


\* ================================================================ claims
IsPublish == step.result \in {"Ok", "Full", "Inactive", "Closed"} /\ step.chan \in Chan

\* The loop that publishes on channel c: the frame-tick task or the UI loop.
Producer(c) == IF c = "frame" THEN ticker ELSE ui

QueueIds(c) == [i \in 1..Len(queue[c]) |-> queue[c][i].id]

\* What subscription s has read followed by what is still buffered for it.
Stream(s) ==
    subs[s].seen \o SubSeq(QueueIds(subs[s].chan), subs[s].idx + 1,
                           Len(queue[subs[s].chan]))

Min(a, b) == IF a < b THEN a ELSE b

\* C1: a publish on a full channel drops the message being published, leaves
\* the buffered messages in place, and the producer of that channel keeps
\* running.
C1_FullPublishDroppedProducerRuns ==
    (IsPublish /\ step.result = "Full") =>
        /\ \A i \in 1..Len(queue[step.chan]) : queue[step.chan][i].id # step.id
        /\ Len(queue[step.chan]) = step.qlen
        /\ Producer(step.chan) = "running"

\* C2: when the requester has dropped its reply receiver before the UI loop
\* handles the CreateWindow request, the reply is discarded and the UI loop
\* keeps running.
C2_DroppedReplyDiscarded ==
    (step.kind = "CreateWindow" /\ step.reply = "receiver_dropped") => ui = "running"

\* C3 as stated: a handle pushed as kind K resolves as K and resolving it as
\* any other kind K' reports TypeMismatch.
C3_OtherKindIsTypeMismatch ==
    (step.kind = "TableResolve" /\ step.handle \in DOMAIN table) =>
        /\ step.want = table[step.handle].kind => step.result = "Ok"
        /\ step.want # table[step.handle].kind => step.result = "TypeMismatch"

\* The kinds that the bindings back with one host type.
SharedHostType == {{"gpu-device", "gpu-queue"}, {"gpu-buffer", "remote-buffer"}}

\* C3 amended: a handle pushed as kind K resolves as K; resolving it as another
\* kind K' reports TypeMismatch, except that gpu-device/gpu-queue and
\* gpu-buffer/remote-buffer, each pair backed by one host type, resolve as
\* each other.
C3_OtherHostTypeIsTypeMismatch ==
    (step.kind = "TableResolve" /\ step.handle \in DOMAIN table) =>
        LET k == table[step.handle].kind
        IN /\ step.want = k => step.result = "Ok"
           /\ {step.want, k} \in SharedHostType => step.result = "Ok"
           /\ (step.want # k /\ {step.want, k} \notin SharedHostType)
                 => step.result = "TypeMismatch"

\* A handle has been resolved as a kind it was not pushed as and rejected.
C3_Witness ==
    /\ step.kind = "TableResolve"
    /\ step.handle \in DOMAIN table
    /\ table[step.handle].kind = "gpu-buffer"
    /\ step.want = "gpu-texture"
    /\ step.result = "TypeMismatch"

\* C4: while a producer loop is publishing, no publish reports Closed.
C4_NoPublishReportsClosed == IsPublish => step.result # "Closed"

Live(s) == subs[s].state = "live"

Drained(s) == subs[s].idx = Len(queue[subs[s].chan])

\* C5: what a subscriber has read is, in publish order and without repeats,
\* a part of the messages published on its channel after it subscribed
\* (message ids number the publishes of a channel).
C5_ReadInPublishOrder ==
    \A s \in SubIds :
        Live(s) =>
            LET seen == subs[s].seen
            IN /\ \A i \in 1..Len(seen) :
                     seen[i] > subs[s].subAt /\ seen[i] <= npub[subs[s].chan]
               /\ \A i \in 1..(Len(seen) - 1) : seen[i] < seen[i + 1]

\* A subscriber has read two messages with a skipped publish in between.
C5_Witness ==
    \E s \in SubIds :
        /\ Live(s)
        /\ Len(subs[s].seen) >= 2
        /\ subs[s].seen[2] > subs[s].seen[1] + 1

\* C6: two subscribers of one channel that subscribed at the same point of
\* its publishes are handed the same messages (each publish is buffered for
\* both or for neither), so once both have drained the channel they have read
\* the same sequence.
C6_SameSequenceForBoth ==
    \A s, t \in SubIds :
        (Live(s) /\ Live(t) /\ subs[s].chan = subs[t].chan
                 /\ subs[s].subAt = subs[t].subAt) =>
            /\ Stream(s) = Stream(t)
            /\ (Drained(s) /\ Drained(t)) => subs[s].seen = subs[t].seen

\* Two subscribers of one channel have both drained it after reading two
\* messages each.
C6_Witness ==
    \E s, t \in SubIds :
        /\ s # t /\ Live(s) /\ Live(t)
        /\ subs[s].chan = subs[t].chan
        /\ subs[s].subAt = subs[t].subAt
        /\ Drained(s) /\ Drained(t)
        /\ Len(subs[s].seen) >= 2
        /\ subs[t].seen = subs[s].seen

\* The capacities the channels are created with: 1 for frame ticks, 10 for
\* the pointer, key and resize channels.
ClaimedCapacity(c) == IF c = "frame" THEN 1 ELSE 10

C8_OnePendingTick ==
    /\ Len(queue["frame"]) <= 1
    /\ (step.kind = "Tick" /\ step.rc > 0 /\ step.qlen = 1 /\ step.result # "Closed") =>
          /\ step.result = "Full"
          /\ step.printed
          /\ ticker = "running"
          /\ Len(queue["frame"]) = 1
          /\ queue["frame"][1].id # step.id
    /\ (step.kind = "Recv" /\ step.chan = "frame" /\ receiver_count["frame"] = 1) =>
          queue["frame"] = <<>>

\* The only frame subscriber has read one tick after two were published to
\* it, and the channel is empty.
C8_Witness ==
    /\ step.kind = "Recv" /\ step.chan = "frame"
    /\ queue["frame"] = <<>>
    /\ \E s \in SubIds :
          /\ Live(s) /\ subs[s].solo /\ subs[s].chan = "frame"
          /\ subs[s].seen = <<subs[s].subAt + 1>>
          /\ npub["frame"] = subs[s].subAt + 2

\* C9: a publish on a channel without an active subscriber does not fail the
\* producer and buffers nothing.
C9_IdlePublishIsNoOp ==
    (IsPublish /\ step.rc = 0) =>
        /\ Producer(step.chan) = "running"
        /\ \A i \in 1..Len(queue[step.chan]) : queue[step.chan][i].id # step.id
        /\ \A s \in SubIds :
              (Live(s) /\ subs[s].chan = step.chan) =>
                  \A i \in 1..Len(subs[s].seen) : subs[s].seen[i] # step.id

\* C10: a requester that has resumed holds a window the UI loop created on
\* taking its request, and that window's tracked pointer position exists and
\* is (0,0) unless a CursorMoved for it has been handled.
C10_ResumedAfterWindowTracked ==
    \A r \in ReqIds :
        req[r].state = "resumed" =>
            /\ req[r].win \in 1..nextWin
            /\ \A i \in 1..Len(userEvents) : userEvents[i] # r
            /\ req[r].win \in DOMAIN pointer_pos
            /\ req[r].win \notin moved => pointer_pos[req[r].win] = <<0, 0>>

\* A requester has just resumed with a window whose pointer has not moved.
C10_Witness ==
    /\ step.kind = "ResumeCreateWindow"
    /\ req[step.req].state = "resumed"
    /\ req[step.req].win \notin moved
    /\ pointer_pos[req[step.req].win] = <<0, 0>>

\* The position carried by the event that the step just taken published.
CarriedPos == <<step.ev.x, step.ev.y>>

\* C11: a pointer-down or pointer-up event for window W carries W's tracked
\* position, which is (0,0) from W's creation until a pointer-move for W is
\* handled and from then on the position of the latest one; a pointer-move
\* for another window and a button event leave it as it is.
C11_ButtonCarriesLastMove ==
    [][ /\ (step'.kind = "MouseInput" /\ step'.lookup = "found") =>
              /\ step'.chan \in {"pointer_down_event", "pointer_up_event"}
              /\ step'.ev.win = step'.win
              /\ <<step'.ev.x, step'.ev.y>> = pointer_pos[step'.win]
              /\ pointer_pos' = pointer_pos
        /\ (step'.kind = "CursorMoved" /\ step'.lookup = "found") =>
              pointer_pos' = [pointer_pos EXCEPT ![step'.win] = step'.input]
        /\ step'.kind = "CreateWindow" =>
              /\ step'.win \notin DOMAIN pointer_pos
              /\ DOMAIN pointer_pos' = DOMAIN pointer_pos \cup {step'.win}
              /\ pointer_pos'[step'.win] = <<0, 0>>
              /\ \A w \in DOMAIN pointer_pos : pointer_pos'[w] = pointer_pos[w]
        /\ step'.kind \notin {"MouseInput", "CursorMoved", "CreateWindow"} =>
              pointer_pos' = pointer_pos
      ]_vars

\* A button event for a window whose pointer has moved to (12,7) carries
\* (12,7) while another window is still tracked at (0,0).
C11_Witness ==
    /\ step.kind = "MouseInput"
    /\ step.lookup = "found"
    /\ step.win \in moved
    /\ CarriedPos = <<12, 7>>
    /\ \E w \in DOMAIN pointer_pos : w # step.win /\ pointer_pos[w] = <<0, 0>>

\* How many times requester r's request sits in the queue of the proxy.
Queued(r) == Cardinality({i \in 1..Len(userEvents) : userEvents[i] = r})

\* C12: a reply slot is written at most once and only by the turn that handles
\* its own request: that turn takes the request out of the queue for good,
\* finds the slot empty, writes the window it has just created into it (when
\* the receiver still exists) and touches no other slot; no other step writes
\* a slot, and no two requesters are ever handed the same window.
C12_OneReplyPerRequest ==
    /\ [](\A r \in ReqIds :
             /\ Queued(r) <= 1
             /\ Queued(r) = 1 => req[r].slot = 0
             /\ req[r].state = "idle" => (Queued(r) = 0 /\ req[r].slot = 0)
             /\ req[r].state = "resumed" => req[r].win = req[r].slot
             /\ \A o \in ReqIds \ {r} : req[r].slot # 0 => req[o].slot # req[r].slot)
    /\ [][ /\ step'.kind = "CreateWindow" =>
                 /\ Queued(step'.req) = 1
                 /\ req[step'.req].slot = 0
                 /\ step'.reply = "sent" => req'[step'.req].slot = step'.win
                 /\ step'.reply # "sent" => req'[step'.req].slot = 0
                 /\ \A o \in ReqIds \ {step'.req} : req'[o].slot = req[o].slot
           /\ step'.kind # "CreateWindow" =>
                 \A r \in ReqIds : req'[r].slot = req[r].slot
         ]_vars

\* The UI loop has answered a request while another requester, whose request
\* was queued at the same time, holds or awaits a different window.
C12_Witness ==
    /\ step.kind = "CreateWindow"
    /\ step.reply = "sent"
    /\ req[step.req].state = "waiting"
    /\ \E o \in ReqIds \ {step.req} :
          /\ req[o].state = "waiting"
          /\ req[o].slot # 0
          /\ req[o].slot # req[step.req].slot

\* The steps taken by the guest's start call.
GuestSteps ==
    {"PostCreateWindow", "ResumeCreateWindow", "CancelCreateWindow", "Subscribe",
     "Recv", "DropListener", "TableAllocate", "TableResolve", "TableRelease",
     "GuestExit"}

\* C13 as stated: the event loop is already running when the guest's start
\* call takes a step.
C13_LoopRunsBeforeGuestStarts == step.kind \in GuestSteps => ui # "not_started"

\* C13 amended: the guest's start call has been spawned by the time the event
\* loop runs, and its steps come after the spawn.
C13_GuestSpawnedBeforeLoopRuns ==
    /\ ui # "not_started" => guest # "not_spawned"
    /\ step.kind \in GuestSteps => guest # "not_spawned"

\* The event loop starts running with a request of the guest already queued.
C13_Witness ==
    /\ step.kind = "EventLoopRun"
    /\ ui = "running"
    /\ guest = "running"
    /\ userEvents # <<>>

\* C14: when a listener is dropped, with or without unread messages and also
\* as the last one of its channel, every other subscriber keeps what it has
\* read and what is buffered for it, in the same order, and both producer
\* loops stay as they are; while the guest runs no channel is closed by a
\* drop, so a later publish that finds no subscriber is ignored and the
\* producer keeps running.
C14_DropLeavesOthersAlone ==
    /\ [](guest = "running" => \A c \in Chan : ~is_closed[c])
    /\ []((IsPublish /\ step.result = "Inactive") =>
              /\ Producer(step.chan) = "running"
              /\ queue[step.chan] = <<>>)
    /\ [][ step'.kind = "DropListener" =>
              /\ ui' = ui /\ ticker' = ticker
              /\ \A c \in Chan \ {step'.chan} : queue'[c] = queue[c]
              /\ \A t \in SubIds :
                    subs'[t].state = "live" =>
                        /\ subs[t].state = "live"
                        /\ subs'[t].chan = subs[t].chan
                        /\ subs'[t].seen = subs[t].seen
                        /\ Stream(t)' = Stream(t)
         ]_vars

\* A listener with unread messages has been dropped while another listener of
\* the same channel still has unread messages buffered.
C14_Witness ==
    /\ step.kind = "DropListener"
    /\ step.qlen > 0
    /\ \E t \in SubIds :
          /\ Live(t) /\ subs[t].chan = step.chan
          /\ ~Drained(t)
          /\ subs[t].seen # <<>>

C16_ClosedLoopPostIsFatal ==
    /\ step.kind = "PostCreateWindowLoopClosed" =>
          /\ req[step.req].state = "failed"
          /\ guest = "exited"
    /\ \A r \in ReqIds :
          req[r].state = "failed" =>
              /\ Queued(r) = 0
              /\ req[r].slot = 0
              /\ req[r].win = 0
    /\ step.kind = "PostCreateWindow" =>
          /\ ui # "panicked"
          /\ Queued(step.req) = 1

\* A create_window call has failed at its post because the UI loop had
\* panicked on an earlier request.
C16_Witness ==
    /\ step.kind = "PostCreateWindowLoopClosed"
    /\ ui = "panicked"
    /\ req[step.req].state = "failed"
    /\ \E o \in ReqIds : req[o].state = "cancelled"

\* C17: the key event published for a native keyboard input carries the
\* input's alt, ctrl, logo and shift modifier states as its alt, ctrl, meta
\* and shift flags, the virtual key code as its code (empty when there is
\* none), the scan code as its key, and the window the input was for.
C17_KeyEventMirrorsInput ==
    step.kind = "KeyboardInput" =>
        LET in == step.input.input
        IN /\ step.ev.alt_key = in.alt
           /\ step.ev.ctrl_key = in.ctrl
           /\ step.ev.meta_key = in.logo
           /\ step.ev.shift_key = in.shift
           /\ step.ev.code = (IF in.virtual_keycode = "None" THEN "" ELSE in.virtual_keycode)
           /\ step.ev.key = ToString(in.scancode)
           /\ step.ev.win = step.win
           /\ step.chan = (IF step.input.state = "Pressed" THEN "key_down_event"
                           ELSE "key_up_event")

\* The channel that matches the native event handled by a step.
MatchingChannel(kind, input) ==
    CASE kind = "CursorMoved" -> "pointer_move_event"
      [] kind = "MouseInput" ->
            IF input = "Pressed" THEN "pointer_down_event" ELSE "pointer_up_event"
      [] kind = "KeyboardInput" ->
            IF input.state = "Pressed" THEN "key_down_event" ELSE "key_up_event"
      [] kind = "Resized" -> "canvas_resize_event"
      [] kind = "Tick" -> "frame"

\* C18: the turn for a native event makes one publish attempt, on the channel
\* matching the event, and leaves every other channel as it was; only the
\* tick loop publishes on the frame channel; a CreateWindow turn and the turn
\* for any other native event publish nothing, and the latter changes no
\* tracked pointer position.
C18_PublishedToMatchingChannelOnly ==
    [][ /\ (step'.kind \in {"CursorMoved", "MouseInput", "KeyboardInput", "Resized", "Tick"}
             /\ step'.lookup # "missing") =>
              /\ step'.chan = MatchingChannel(step'.kind, step'.input)
              /\ npub'[step'.chan] = npub[step'.chan] + 1
              /\ \A c \in Chan \ {step'.chan} :
                    queue'[c] = queue[c] /\ npub'[c] = npub[c]
              /\ \A i \in 1..Len(queue'[step'.chan]) :
                    queue'[step'.chan][i].id = step'.id =>
                        queue'[step'.chan][i].ev = step'.ev
        /\ npub'["frame"] # npub["frame"] => step'.kind = "Tick"
        /\ step'.kind \in {"Other", "CreateWindow"} =>
              queue' = queue /\ npub' = npub
        /\ step'.kind = "Other" => pointer_pos' = pointer_pos
      ]_vars

\* A button press has been buffered on pointer-down while pointer-up and
\* pointer-move stay empty.
C18_Witness ==
    /\ step.kind = "MouseInput"
    /\ step.input = "Pressed"
    /\ step.result = "Ok"
    /\ Len(queue["pointer_down_event"]) = 1
    /\ queue["pointer_down_event"][1].ev = step.ev
    /\ \A c \in Chan \ {"pointer_down_event"} : queue[c] = <<>>

\* C19: while the UI event loop keeps taking turns (it has not panicked), a
\* create_window request that was posted and is still awaited gets its reply,
\* whether it was posted before or after the loop started to run.
C19_PostedRequestAnswered ==
    \A r \in ReqIds :
        (req[r].state = "waiting" /\ req[r].slot = 0)
            ~> (req[r].slot # 0 \/ req[r].state # "waiting" \/ ui = "panicked")

\* The UI loop has answered the request at the head of its queue and goes on
\* running with a later request still queued.
C19_Witness ==
    /\ step.kind = "CreateWindow"
    /\ step.reply = "sent"
    /\ ui = "running"
    /\ req[step.req].slot = step.win
    /\ userEvents # <<>>

\* C20: every window the loop has created, live or not, has an entry in the
\* tracked-pointer map, so the lookups of the CursorMoved and MouseInput
\* handlers find one and the UI loop never panics on them.
C20_PointerLookupSucceeds ==
    /\ \A w \in 1..nextWin : w \in DOMAIN pointer_pos
    /\ windows \subseteq DOMAIN pointer_pos
    /\ step.kind \in {"CursorMoved", "MouseInput"} => step.lookup = "found"

\* With two windows tracked, a button event for a window whose pointer never
\* moved has found its entry.
C20_Witness ==
    /\ step.kind = "MouseInput"
    /\ step.lookup = "found"
    /\ step.win \notin moved
    /\ Cardinality(DOMAIN pointer_pos) = 2
    /\ ui = "running"

====
